---- MODULE Spec2Model ----
(***************************************************************************)
(* WsInboundTransport and WebSocketTransportSession                        *)
(* (src/samples/logger.ts, lines 280-397).                                 *)
(*                                                                         *)
(* The listener accepts WebSocket connections, creates one session per     *)
(* accepted socket, forwards inbound frames to MessageReceiver and calls   *)
(* TransportService.removeSession when the socket emits 'close'.  The      *)
(* session's send() pings the peer and writes the payload from the 'pong'  *)
(* handler, then waits on a 10 s timer.                                    *)
(*                                                                         *)
(* The model follows the Node.js event loop: every action is one callback  *)
(* (or one synchronous stretch of an async function up to its next await). *)
(***************************************************************************)
EXTENDS Integers, Sequences, FiniteSets, TLC

\* ---------------------------------------------------------------- bounds
MaxSockets == 2     \* physical connections that may be opened
MaxIds     == 2     \* distinct values utils.uuid() may return
MaxSends   == 2     \* send() calls
MaxFrames  == 2     \* inbound frames, over all connections
MaxEvents  == 6     \* callbacks the event loop dispatches in one run

Sock    == 1..MaxSockets
Ids     == 1..MaxIds
SendIds == 1..MaxSends

\* ------------------------------------------------------------ JSON / data
\* An EncryptedMessage, reduced to two of its string fields.
Payloads ==
  { [protected |-> "p1", ciphertext |-> "c1"],
    [protected |-> "p2", ciphertext |-> "c2"] }

NoPayload == [protected |-> "", ciphertext |-> ""]

\* JSON.stringify(encryptedMessage): the text, as a sequence of tokens.
JSONstringify(m) ==
  << "{", "protected", m.protected, "ciphertext", m.ciphertext, "}" >>

\* JSON.parse(event.data): ok = FALSE stands for the SyntaxError it throws.
JSONparse(text) ==
  IF /\ Len(text) = 6
     /\ text[1] = "{" /\ text[2] = "protected"
     /\ text[4] = "ciphertext" /\ text[6] = "}"
  THEN [ok |-> TRUE,  value |-> [protected |-> text[3], ciphertext |-> text[5]]]
  ELSE [ok |-> FALSE, value |-> NoPayload]

\* event.data of the inbound frames a peer may send: well-formed and truncated.
Frames == { JSONstringify(m) : m \in Payloads } \cup { << "{", "protected" >> }

\* ---------------------------------------------------------------- state
VARIABLES
  readyState,      \* socket.readyState per socket; "NONE" = not connected yet
  socketIds,       \* WsInboundTransport.socketIds: id -> socket (0 = no entry)
  sessionOf,       \* socket -> id of the session created for it (0 = none)
  registry,        \* TransportService: ids of the sessions it tracks
  removeLog,       \* socket -> session ids removeSession was called with
  arrived,         \* socket -> frames whose 'message' event was handled
  recvCalls,       \* socket -> receiveMessage invocations, in call order
  msgErrors,       \* socket -> logger.error calls of the message handler
  pings,           \* socket -> pings sent and not yet answered
  pc,              \* send call -> "idle" | "waiting" | "done"
  sockOf,          \* send call -> socket of the session it was called on
  payload,         \* send call -> encryptedMessage argument
  calledIn,        \* send call -> readyState when send() was called
  probed,          \* send call -> it called socket.ping
  success,         \* send call -> local variable success
  timer,           \* send call -> "unset" | "pending" | "fired" | "cleared"
  listener,        \* send call -> its once("pong") handler is registered
  wrote,           \* send call -> data passed to socket.send, in order
  sentIn,          \* send call -> readyState when socket.send was called
  cb,              \* send call -> write callback "none"|"pending"|"ok"|"error"
  ack,             \* send call -> pong handled "none" | "inTime" | "late"
  stopPromise,     \* promise of stop(): "none"|"pending"|"resolved"|"rejected"
  closeCb,         \* what socketServer.close reported: "none"|"ok"|"error"
  closeCalls,      \* socket -> calls of close() on its session
  closedInProbe,   \* send call -> close() was called while it awaited its pong
  result,          \* send call -> what send() reported to its caller
  raisedElsewhere, \* send calls whose error was thrown inside the callback
  crashed,         \* the uncaught exception ended the process
  ticks            \* callbacks dispatched so far

connVars == << readyState, socketIds, sessionOf, registry, removeLog >>
stopVars == << stopPromise, closeCb >>
closeVars == << closeCalls, closedInProbe >>
msgVars  == << arrived, recvCalls, msgErrors >>
sendVars == << pc, sockOf, payload, calledIn, probed, success, timer, listener, wrote, sentIn,
               cb, ack, result, raisedElsewhere, crashed >>
vars     == << readyState, socketIds, sessionOf, registry, removeLog,
               arrived, recvCalls, msgErrors, pings,
               pc, sockOf, payload, calledIn, probed, success, timer, listener, wrote, sentIn,
               cb, ack, result, raisedElsewhere, crashed, ticks,
               stopPromise, closeCb, closeCalls, closedInProbe >>

Init ==
  /\ readyState = [c \in Sock |-> "NONE"]
  /\ socketIds = [i \in Ids |-> 0]
  /\ sessionOf = [c \in Sock |-> 0]
  /\ registry = {}
  /\ removeLog = [c \in Sock |-> << >>]
  /\ arrived = [c \in Sock |-> << >>]
  /\ recvCalls = [c \in Sock |-> << >>]
  /\ msgErrors = [c \in Sock |-> 0]
  /\ pings = [c \in Sock |-> 0]
  /\ pc = [s \in SendIds |-> "idle"]
  /\ sockOf = [s \in SendIds |-> 0]
  /\ payload = [s \in SendIds |-> NoPayload]
  /\ calledIn = [s \in SendIds |-> "NONE"]
  /\ probed = [s \in SendIds |-> FALSE]
  /\ success = [s \in SendIds |-> FALSE]
  /\ timer = [s \in SendIds |-> "unset"]
  /\ listener = [s \in SendIds |-> FALSE]
  /\ wrote = [s \in SendIds |-> << >>]
  /\ sentIn = [s \in SendIds |-> "NONE"]
  /\ cb = [s \in SendIds |-> "none"]
  /\ ack = [s \in SendIds |-> "none"]
  /\ result = [s \in SendIds |-> "none"]
  /\ raisedElsewhere = {}
  /\ crashed = FALSE
  /\ ticks = 0
  /\ stopPromise = "none"
  /\ closeCb = "none"
  /\ closeCalls = [c \in Sock |-> 0]
  /\ closedInProbe = [s \in SendIds |-> FALSE]

\* The event loop dispatches one more callback, while the process is alive.
Dispatch ==
  /\ ~crashed
  /\ ticks < MaxEvents
  /\ ticks' = ticks + 1

\* ------------------------------------------------- TransportService (core)
SaveSession(reg, sid) == reg \cup {sid}

RemoveSession(reg, sid) == reg \ {sid}

\* ------------------------------------------------------- WsInboundTransport
\* Variant of Connect: no look-up in socketIds before the session is made.
Connect_noDedup(c, id) ==
  /\ Dispatch
  /\ stopPromise = "none"
  /\ readyState[c] = "NONE"
  /\ \A d \in Sock : d < c => readyState[d] # "NONE"
  /\ readyState' = [readyState EXCEPT ![c] = "OPEN"]
  /\ socketIds' = [socketIds EXCEPT ![id] = c]
  /\ sessionOf' = [sessionOf EXCEPT ![c] = id]
  /\ UNCHANGED << stopVars, closeVars, registry, removeLog, msgVars, pings, sendVars >>

\* socketServer.on('connection'): a new socket, utils.uuid() returns id.
\* The acceptor hands over connections until its close has been requested.
Connect(c, id) ==
  /\ Dispatch
  /\ stopPromise = "none"
  /\ readyState[c] = "NONE"
  /\ \A d \in Sock : d < c => readyState[d] # "NONE"
  /\ readyState' = [readyState EXCEPT ![c] = "OPEN"]
  /\ IF socketIds[id] = 0
       THEN /\ socketIds' = [socketIds EXCEPT ![id] = c]
            /\ sessionOf' = [sessionOf EXCEPT ![c] = id]
       ELSE UNCHANGED << socketIds, sessionOf >>
  /\ UNCHANGED << stopVars, closeVars, registry, removeLog, msgVars, pings, sendVars >>

\* Variant of OnClose: the handler forgets to tell the TransportService.
OnClose_silent(c) ==
  /\ UNCHANGED << removeLog, registry >>

\* socket.on('close') handler registered for an accepted socket.
OnClose(c) ==
  /\ removeLog' = [removeLog EXCEPT ![c] = Append(@, sessionOf[c])]
  /\ registry' = RemoveSession(registry, sessionOf[c])

\* The socket emits 'close' (peer close frame, network drop, or the end of a
\* close handshake started locally); ws emits it once per socket.
SocketClosed(c) ==
  /\ Dispatch
  /\ readyState[c] \in {"OPEN", "CLOSING"}
  /\ readyState' = [readyState EXCEPT ![c] = "CLOSED"]
  /\ IF sessionOf[c] # 0
       THEN OnClose(c)
       ELSE UNCHANGED << registry, removeLog >>
  /\ UNCHANGED << stopVars, closeVars, socketIds, sessionOf, msgVars, pings, sendVars >>

\* Variant of Forward: invocations are recorded newest first.
Forward_reordered(c, envelope) ==
  /\ recvCalls' = [recvCalls EXCEPT ![c] =
                     << [envelope |-> envelope,
                         session  |-> sessionOf[c],
                         status   |-> "pending"] >> \o @]
  /\ UNCHANGED << msgErrors, readyState, registry >>

\* try-branch of the 'message' handler: receiveMessage is invoked with the
\* parsed envelope and the session; its promise settles later.
Forward(c, envelope) ==
  /\ recvCalls' = [recvCalls EXCEPT ![c] =
                     Append(@, [envelope |-> envelope,
                                session  |-> sessionOf[c],
                                status   |-> "pending"])]
  /\ UNCHANGED << msgErrors, readyState, registry >>

\* Variant of CatchParseError: a malformed frame tears the connection down.
CatchParseError_teardown(c) ==
  /\ msgErrors' = [msgErrors EXCEPT ![c] = @ + 1]
  /\ readyState' = [readyState EXCEPT ![c] = "CLOSING"]
  /\ UNCHANGED << recvCalls, registry >>

\* catch-branch of the 'message' handler after JSON.parse threw.
CatchParseError(c) ==
  /\ msgErrors' = [msgErrors EXCEPT ![c] = @ + 1]
  /\ UNCHANGED << recvCalls, readyState, registry >>

TotalArrived ==
  LET RECURSIVE Sum(_)
      Sum(n) == IF n = 0 THEN 0 ELSE Len(arrived[n]) + Sum(n - 1)
  IN Sum(MaxSockets)

\* socket 'message' event with event.data = f.
OnMessage(c, f) ==
  /\ Dispatch
  /\ readyState[c] \in {"OPEN", "CLOSING"}
  /\ sessionOf[c] # 0
  /\ TotalArrived < MaxFrames
  /\ arrived' = [arrived EXCEPT ![c] = Append(@, f)]
  /\ LET p == JSONparse(f)
     IN IF p.ok THEN Forward(c, p.value) ELSE CatchParseError(c)
  /\ UNCHANGED << stopVars, closeVars, socketIds, sessionOf, removeLog, pings, sendVars >>

\* catch-branch of the 'message' handler after receiveMessage rejected.
CatchProcessingError(c, i) ==
  /\ recvCalls' = [recvCalls EXCEPT ![c][i].status = "failed"]
  /\ msgErrors' = [msgErrors EXCEPT ![c] = @ + 1]
  /\ UNCHANGED << readyState, registry >>

\* receiveMessage resolved: the receiver keeps the session as reply destination.
ProcessingOk(c, i) ==
  /\ recvCalls' = [recvCalls EXCEPT ![c][i].status = "ok"]
  /\ registry' = SaveSession(registry, recvCalls[c][i].session)
  /\ UNCHANGED << msgErrors, readyState >>

\* The awaited receiveMessage promise of the i-th invocation on c settles.
ProcDone(c, i, ok) ==
  /\ Dispatch
  /\ i \in 1..Len(recvCalls[c])
  /\ recvCalls[c][i].status = "pending"
  /\ IF ok THEN ProcessingOk(c, i) ELSE CatchProcessingError(c, i)
  /\ UNCHANGED << stopVars, closeVars, socketIds, sessionOf, removeLog, arrived, pings, sendVars >>

\* ------------------------------------------------ WebSocketTransportSession
\* Variant of NotOpen: only a fully closed socket is refused.
NotOpen_closedOnly(c) == readyState[c] = "CLOSED"

\* this.socket.readyState !== WebSocket.OPEN
NotOpen(c) == readyState[c] # "OPEN"

\* Variant of SendCall: the pong handler and the timer are set up before the
\* readyState check, so a refused call leaves both behind.
SendCall_setupFirst(s, c, m) ==
  /\ Dispatch
  /\ pc[s] = "idle"
  /\ \A r \in SendIds : r < s => pc[r] # "idle"
  /\ sessionOf[c] # 0
  /\ sockOf' = [sockOf EXCEPT ![s] = c]
  /\ payload' = [payload EXCEPT ![s] = m]
  /\ calledIn' = [calledIn EXCEPT ![s] = readyState[c]]
  /\ IF NotOpen(c)
       THEN /\ pc' = [pc EXCEPT ![s] = "done"]
            /\ result' = [result EXCEPT ![s] = "TransportClosed"]
            /\ listener' = [listener EXCEPT ![s] = TRUE]
            /\ timer' = [timer EXCEPT ![s] = "pending"]
            /\ UNCHANGED << pings, probed >>
       ELSE /\ pc' = [pc EXCEPT ![s] = "waiting"]
            /\ listener' = [listener EXCEPT ![s] = TRUE]
            /\ pings' = [pings EXCEPT ![c] = @ + 1]
            /\ probed' = [probed EXCEPT ![s] = TRUE]
            /\ timer' = [timer EXCEPT ![s] = "pending"]
            /\ UNCHANGED result
  /\ UNCHANGED << stopVars, closeVars, connVars, msgVars, success, wrote, sentIn, cb, ack,
                  raisedElsewhere, crashed >>

\* send(): the synchronous stretch up to `await delay(10000, ...)`.
SendCall(s, c, m) ==
  /\ Dispatch
  /\ pc[s] = "idle"
  /\ \A r \in SendIds : r < s => pc[r] # "idle"
  /\ sessionOf[c] # 0
  /\ sockOf' = [sockOf EXCEPT ![s] = c]
  /\ payload' = [payload EXCEPT ![s] = m]
  /\ calledIn' = [calledIn EXCEPT ![s] = readyState[c]]
  /\ IF NotOpen(c)
       THEN /\ pc' = [pc EXCEPT ![s] = "done"]
            /\ result' = [result EXCEPT ![s] = "TransportClosed"]
            /\ UNCHANGED << listener, pings, probed, timer >>
       ELSE /\ pc' = [pc EXCEPT ![s] = "waiting"]
            /\ listener' = [listener EXCEPT ![s] = TRUE]
            /\ pings' = [pings EXCEPT ![c] = @ + 1]
            /\ probed' = [probed EXCEPT ![s] = TRUE]
            /\ timer' = [timer EXCEPT ![s] = "pending"]
            /\ UNCHANGED result
  /\ UNCHANGED << stopVars, closeVars, connVars, msgVars, success, wrote, sentIn, cb, ack,
                  raisedElsewhere, crashed >>

\* Variant of StaysRegistered: socket.on instead of socket.once.
StaysRegistered_on(s) == TRUE

\* socket.once: the handler is dropped when it has run.
StaysRegistered(s) == FALSE

\* First argument of this.socket.send in the pong handler.
WriteData(m) == JSONstringify(m)

\* Variant of Listening: the pong handlers are not kept per socket.
Listening_anySocket(c) == { s \in SendIds : listener[s] }

\* Sends whose pong handler is registered on socket c.
Listening(c) == { s \in SendIds : listener[s] /\ sockOf[s] = c }

\* The socket emits 'pong' (the peer answered one outstanding ping): every
\* registered pong handler runs and hands its payload to socket.send.
Pong(c) ==
  /\ Dispatch
  /\ readyState[c] \in {"OPEN", "CLOSING"}
  /\ pings[c] > 0
  /\ pings' = [pings EXCEPT ![c] = @ - 1]
  /\ listener' = [s \in SendIds |->
                    IF s \in Listening(c) THEN StaysRegistered(s) ELSE listener[s]]
  /\ wrote' = [s \in SendIds |->
                 IF s \in Listening(c)
                   THEN Append(wrote[s], WriteData(payload[s])) ELSE wrote[s]]
  /\ sentIn' = [s \in SendIds |->
                  IF s \in Listening(c) THEN readyState[c] ELSE sentIn[s]]
  /\ cb' = [s \in SendIds |-> IF s \in Listening(c) THEN "pending" ELSE cb[s]]
  /\ ack' = [s \in SendIds |->
               IF s \in Listening(c) /\ ack[s] = "none"
                 THEN (IF timer[s] = "pending" THEN "inTime" ELSE "late")
                 ELSE ack[s]]
  /\ UNCHANGED << stopVars, closeVars, connVars, msgVars, pc, sockOf, payload, calledIn, probed,
                  success, timer, result, raisedElsewhere, crashed >>

\* clearTimeout(timeoutId)
ClearTimeout(t) == IF t = "pending" THEN "cleared" ELSE t

\* The callback of socket.send runs.  ws reports an error when the socket was
\* not open at the time of the call; otherwise the write may fail or not.
\* The throw in the error branch leaves the callback as an uncaught
\* exception, which ends the process unless the embedding application
\* installed a handler.
WriteDone(s, err, dies) ==
  /\ Dispatch
  /\ cb[s] = "pending"
  /\ sentIn[s] # "OPEN" => err
  /\ ~err => ~dies
  /\ IF err
       THEN /\ cb' = [cb EXCEPT ![s] = "error"]
            /\ raisedElsewhere' = raisedElsewhere \cup {s}
            /\ crashed' = dies
            /\ UNCHANGED << success, timer >>
       ELSE /\ cb' = [cb EXCEPT ![s] = "ok"]
            /\ success' = [success EXCEPT ![s] = TRUE]
            /\ timer' = [timer EXCEPT ![s] = ClearTimeout(@)]
            /\ UNCHANGED << raisedElsewhere, crashed >>
  /\ UNCHANGED << stopVars, closeVars, connVars, msgVars, pings, pc, sockOf, payload, calledIn,
                  probed, listener, wrote, sentIn, ack, result >>

\* Variant of AfterDelay: the success flag is not consulted.
AfterDelay_unchecked(succ) == "Succeeded"

\* The code after `await delay(...)`: throw unless success.
AfterDelay(succ) == IF ~succ THEN "SendTimeout" ELSE "Succeeded"

\* Variant of TimerFires: a send that times out closes the stale socket.
TimerFires_closing(s) ==
  /\ Dispatch
  /\ timer[s] = "pending"
  /\ timer' = [timer EXCEPT ![s] = "fired"]
  /\ pc' = [pc EXCEPT ![s] = "done"]
  /\ result' = [result EXCEPT ![s] = IF ~success[s] THEN "SendTimeout" ELSE "Succeeded"]
  /\ readyState' = [readyState EXCEPT ![sockOf[s]] =
                      IF ~success[s] /\ @ = "OPEN" THEN "CLOSING" ELSE @]
  /\ UNCHANGED << stopVars, closeVars, socketIds, sessionOf, registry, removeLog, msgVars, pings,
                  sockOf, payload, calledIn, probed, success, listener, wrote,
                  sentIn, cb, ack, raisedElsewhere, crashed >>

\* The 10 s timer fires: the delay promise resolves and send() continues.
TimerFires(s) ==
  /\ Dispatch
  /\ timer[s] = "pending"
  /\ timer' = [timer EXCEPT ![s] = "fired"]
  /\ pc' = [pc EXCEPT ![s] = "done"]
  /\ result' = [result EXCEPT ![s] = AfterDelay(success[s])]
  /\ UNCHANGED << stopVars, closeVars, connVars, msgVars, pings, sockOf, payload, calledIn,
                  probed, success, listener, wrote, sentIn, cb, ack, raisedElsewhere, crashed >>

\* Variant of SessionClose: the readyState is not consulted.
SessionClose_unguarded(c) ==
  /\ Dispatch
  /\ sessionOf[c] # 0
  /\ closeCalls' = [closeCalls EXCEPT ![c] = @ + 1]
  /\ closedInProbe' = [s \in SendIds |->
                         \/ closedInProbe[s]
                         \/ (sockOf[s] = c /\ pc[s] = "waiting" /\ ack[s] = "none")]
  /\ readyState' = [readyState EXCEPT ![c] = "CLOSING"]
  /\ UNCHANGED << stopVars, socketIds, sessionOf, registry, removeLog, msgVars,
                  pings, sendVars >>

\* close(): closes the socket only when it is open.
SessionClose(c) ==
  /\ Dispatch
  /\ sessionOf[c] # 0
  /\ closeCalls' = [closeCalls EXCEPT ![c] = @ + 1]
  /\ closedInProbe' = [s \in SendIds |->
                         \/ closedInProbe[s]
                         \/ (sockOf[s] = c /\ pc[s] = "waiting" /\ ack[s] = "none")]
  /\ IF readyState[c] = "OPEN"
       THEN readyState' = [readyState EXCEPT ![c] = "CLOSING"]
       ELSE UNCHANGED readyState
  /\ UNCHANGED << stopVars, socketIds, sessionOf, registry, removeLog, msgVars, pings,
                  sendVars >>

\* Variant of CloseCallback: the error argument is ignored.
CloseCallback_resolveOnly(err) == "resolved"

\* A promise settles once: resolve and reject act on a pending promise only.
Settle(p, outcome) == IF p = "pending" THEN outcome ELSE p

\* Callback of socketServer.close in stop(): reject(error) if there is an
\* error, then resolve().
CloseCallback(err) ==
  LET afterReject == IF err THEN Settle("pending", "rejected") ELSE "pending"
  IN Settle(afterReject, "resolved")

\* stop(): asks the acceptor to close and returns the promise.
StopCall ==
  /\ Dispatch
  /\ stopPromise = "none"
  /\ stopPromise' = "pending"
  /\ UNCHANGED << closeCb, closeVars, connVars, msgVars, pings, sendVars >>

\* The acceptor has closed and calls back, with or without an error.
AcceptorClosed(err) ==
  /\ Dispatch
  /\ stopPromise = "pending"
  /\ closeCb = "none"
  /\ closeCb' = IF err THEN "error" ELSE "ok"
  /\ stopPromise' = CloseCallback(err)
  /\ UNCHANGED << closeVars, connVars, msgVars, pings, sendVars >>

\* ------------------------------------------------------------ specification
Next ==
  \/ \E c \in Sock, id \in Ids : Connect(c, id)
  \/ \E c \in Sock : SocketClosed(c)
  \/ \E c \in Sock, f \in Frames : OnMessage(c, f)
  \/ \E c \in Sock, i \in 1..MaxFrames, ok \in BOOLEAN : ProcDone(c, i, ok)
  \/ \E s \in SendIds, c \in Sock, m \in Payloads : SendCall(s, c, m)
  \/ \E c \in Sock : Pong(c)
  \/ \E s \in SendIds, err \in BOOLEAN, dies \in BOOLEAN : WriteDone(s, err, dies)
  \/ \E s \in SendIds : TimerFires(s)
  \/ \E c \in Sock : SessionClose(c)
  \/ StopCall
  \/ \E err \in BOOLEAN : AcceptorClosed(err)

Spec == Init /\ [][Next]_vars

\* ------------------------------------------------------------------ claims
\* C1: a send() called on an open connection whose pong arrived before the
\* timer fired and whose write completed without error terminates in
\* Succeeded.  Finite-run form of the termination: in every such state the
\* call has returned success or its continuation is still scheduled (the
\* timer that resolves the awaited promise is pending).
C1_AckedWrittenSendSucceeds ==
  \A s \in SendIds :
    (calledIn[s] = "OPEN" /\ ack[s] = "inTime" /\ cb[s] = "ok")
      => (result[s] = "Succeeded" \/ timer[s] = "pending")

\* C2: a send() whose timer fired before any pong was handled for it fails
\* with SendTimeout and its payload is never handed to the socket, neither
\* before nor after the failure.
C2_TimedOutSendNeverWrites ==
  \A s \in SendIds :
    (timer[s] = "fired" /\ ack[s] # "inTime")
      => (result[s] = "SendTimeout" /\ wrote[s] = << >>)

\* C3: a send() called while the socket is not open is done at once with
\* TransportClosed; it sent no ping, registered no pong handler, started no
\* timer and wrote nothing.
C3_ClosedSendFailsWithoutProbe ==
  \A s \in SendIds :
    (pc[s] # "idle" /\ calledIn[s] # "OPEN")
      => /\ pc[s] = "done"
         /\ result[s] = "TransportClosed"
         /\ ~probed[s]
         /\ ~listener[s]
         /\ timer[s] = "unset"
         /\ wrote[s] = << >>

C3_Witness ==
  \E s \in SendIds :
    /\ result[s] = "TransportClosed"
    /\ calledIn[s] \in {"CLOSING", "CLOSED"}

\* C4: when the pong arrived in time and the write callback reported an
\* error, the failure is raised to the caller of send() as SendFailed and
\* nowhere else.
C4_WriteErrorReachesCaller ==
  \A s \in SendIds :
    (ack[s] = "inTime" /\ cb[s] = "error")
      => /\ s \notin raisedElsewhere
         /\ result[s] \in {"none", "SendFailed"}

\* C5: a send() whose pong arrived before its timer fired has handed exactly
\* one text to socket.send, and that text decodes to the payload given to
\* send().
C5_AckedSendWritesOnce ==
  \A s \in SendIds :
    ack[s] = "inTime"
      => /\ Len(wrote[s]) = 1
         /\ JSONparse(wrote[s][1]) = [ok |-> TRUE, value |-> payload[s]]

C5_Witness ==
  \E s \in SendIds, r \in SendIds :
    /\ s # r
    /\ sockOf[s] = sockOf[r]
    /\ ack[s] = "inTime"
    /\ cb[s] # "pending"
    /\ ack[r] = "inTime"

\* C6: no send() has returned success while its payload was not handed to the
\* socket or its write callback reported an error.
C6_SuccessOnlyAfterCleanWrite ==
  \A s \in SendIds :
    result[s] = "Succeeded" => (Len(wrote[s]) >= 1 /\ cb[s] = "ok")

\* A call whose write reported an error has resumed after the delay and
\* returned, not with success.
C6_Witness ==
  \E s \in SendIds :
    /\ timer[s] = "fired" /\ pc[s] = "done"
    /\ Len(wrote[s]) = 1 /\ cb[s] = "error"
    /\ result[s] # "Succeeded"

\* C7: the step in which a send() fails leaves every socket's readyState,
\* the TransportService registry, the socketIds map and the removeSession
\* log as they were.
C7_FailedSendKeepsConnection ==
  [][ \A s \in SendIds :
        (result[s] = "none" /\ result'[s] \notin {"none", "Succeeded"})
          => /\ readyState' = readyState
             /\ registry' = registry
             /\ socketIds' = socketIds
             /\ sessionOf' = sessionOf
             /\ removeLog' = removeLog ]_vars

C7_Witness ==
  \E s \in SendIds :
    /\ result[s] = "SendTimeout"
    /\ readyState[sockOf[s]] = "OPEN"
    /\ sessionOf[sockOf[s]] \in registry

\* C8: removeSession has been invoked for an accepted socket exactly once,
\* with that socket's session, if the socket has closed, and not at all
\* otherwise.
C8_RemoveSessionOncePerClose ==
  \A c \in Sock :
    /\ (sessionOf[c] # 0 /\ readyState[c] = "CLOSED")
         => removeLog[c] = << sessionOf[c] >>
    /\ readyState[c] # "CLOSED" => removeLog[c] = << >>

C8_Witness ==
  \E c \in Sock, d \in Sock :
    /\ sessionOf[c] # 0 /\ readyState[c] = "CLOSED"
    /\ sessionOf[d] # 0 /\ readyState[d] \in {"OPEN", "CLOSING"}

\* C9: a step of the message handler that logs an error (the frame did not
\* parse, or receiveMessage rejected) leaves the socket's readyState, the
\* registry and the session as they were; and on a socket that has logged
\* such an error, every frame that parses is still passed to receiveMessage.
C9_BadFrameSkipped ==
  [][ \A c \in Sock :
        /\ msgErrors'[c] > msgErrors[c]
             => /\ readyState'[c] = readyState[c]
                /\ registry' = registry
                /\ sessionOf' = sessionOf
                /\ removeLog' = removeLog
        /\ ( /\ msgErrors[c] > 0
             /\ Len(arrived'[c]) = Len(arrived[c]) + 1
             /\ JSONparse(arrived'[c][Len(arrived'[c])]).ok )
             => /\ Len(recvCalls'[c]) = Len(recvCalls[c]) + 1
                /\ recvCalls'[c][Len(recvCalls'[c])].envelope
                     = JSONparse(arrived'[c][Len(arrived'[c])]).value ]_vars

C9_Witness ==
  \E c \in Sock :
    /\ Len(arrived[c]) = 2
    /\ ~JSONparse(arrived[c][1]).ok
    /\ JSONparse(arrived[c][2]).ok
    /\ Len(recvCalls[c]) = 1
    /\ readyState[c] = "OPEN"

\* The frames of a sequence that parse, in order.
Parsable(frames) == SelectSeq(frames, LAMBDA f : JSONparse(f).ok)

\* C10: on every socket the receiveMessage invocations are, in order, the
\* parsed values of the frames that arrived and parse, each with the
\* socket's session.
C10_OneCallPerParsedFrameInOrder ==
  \A c \in Sock :
    /\ Len(recvCalls[c]) = Len(Parsable(arrived[c]))
    /\ \A i \in 1..Len(recvCalls[c]) :
         /\ recvCalls[c][i].envelope = JSONparse(Parsable(arrived[c])[i]).value
         /\ recvCalls[c][i].session = sessionOf[c]

C10_Witness ==
  \E c \in Sock :
    /\ Len(recvCalls[c]) = 2
    /\ recvCalls[c][1].envelope # recvCalls[c][2].envelope

\* C11: the promise of stop() stays pending until socketServer.close has
\* called back; it is then resolved if the close reported no error and
\* rejected (ListenerCloseFailed) if it reported one, never resolved.
C11_StopFollowsAcceptorClose ==
  /\ closeCb = "none"  => stopPromise \in {"none", "pending"}
  /\ closeCb = "ok"    => stopPromise = "resolved"
  /\ closeCb = "error" => stopPromise = "rejected"

C11_Witness ==
  /\ closeCb = "error"
  /\ stopPromise = "rejected"
  /\ \E c \in Sock : readyState[c] = "OPEN"

\* C12: a call of close() moves an open socket to CLOSING and leaves a
\* socket that is not open as it is; it changes nothing else and raises
\* nothing, so a second call changes nothing.
C12_CloseOnlyWhenOpen ==
  [][ \A c \in Sock :
        closeCalls'[c] = closeCalls[c] + 1
          => /\ readyState[c] = "OPEN" => readyState'[c] = "CLOSING"
             /\ readyState[c] # "OPEN" => readyState'[c] = readyState[c]
             /\ \A d \in Sock \ {c} : readyState'[d] = readyState[d]
             /\ UNCHANGED << socketIds, sessionOf, registry, removeLog,
                             msgVars, pings, sendVars, stopVars >> ]_vars

C12_Witness ==
  \E c \in Sock :
    /\ closeCalls[c] = 2
    /\ readyState[c] = "CLOSING"

\* Send calls on socket c that have not resolved yet.
Unresolved(c) == { s \in SendIds : sockOf[s] = c /\ pc[s] = "waiting" }

\* C13: on every socket, the pong handlers still registered are not more
\* than the send calls still unresolved: a send that timed out has its pong
\* handler removed.
C13_NoStaleAckSubscription ==
  \A c \in Sock : Cardinality(Listening(c)) <= Cardinality(Unresolved(c))

\* C14: a send whose pong arrived before its timer fired does not fail by
\* the timer: while its write callback is outstanding it has not failed, and
\* it never ends in SendTimeout.
C14_AckedSendDecidedByWrite ==
  \A s \in SendIds :
    ack[s] = "inTime"
      => /\ cb[s] = "pending" => result[s] = "none"
         /\ result[s] # "SendTimeout"

\* C15: every entry of the socketIds map belongs to a socket that has not
\* emitted 'close'.
C15_MapHoldsOnlyLiveSessions ==
  \A i \in Ids : socketIds[i] # 0 => readyState[socketIds[i]] # "CLOSED"

\* Timers of the send calls on socket c that are still to fire.
PendingTimers(c) == { s \in SendIds : sockOf[s] = c /\ timer[s] = "pending" }

\* C16: a send call that is not waiting (not called yet, or resolved) has no
\* pending timer, and on every socket the pending timers are not more than
\* the unresolved send calls.
C16_NoTimerOutlivesSend ==
  /\ \A s \in SendIds : pc[s] # "waiting" => timer[s] # "pending"
  /\ \A c \in Sock : Cardinality(PendingTimers(c)) <= Cardinality(Unresolved(c))

C16_Witness ==
  \E s \in SendIds, r \in SendIds :
    /\ sockOf[s] = sockOf[r]
    /\ pc[s] = "done" /\ timer[s] = "fired"
    /\ pc[r] = "waiting" /\ timer[r] = "pending"

\* C17: a send during whose wait for the pong close() was called on its
\* session keeps its timer (it is not cleared), never returns success, gets
\* no error-free write, and still terminates: it has returned, or its timer
\* is pending in a live process.
C17_ClosedSendStillFails ==
  \A s \in SendIds :
    closedInProbe[s]
      => /\ timer[s] \in {"pending", "fired"}
         /\ result[s] # "Succeeded"
         /\ cb[s] # "ok"
         /\ (pc[s] = "done" \/ (timer[s] = "pending" /\ ~crashed))

\* C18: two accepted sockets have different session ids, each with its own
\* socketIds entry; and the step in which one socket closes leaves every
\* other accepted socket's session, map entry, registry entry, readyState
\* and removeSession log as they were.
C18_SessionsDistinctAndIndependent ==
  [][ /\ \A c \in Sock, d \in Sock :
           (c # d /\ sessionOf'[c] # 0 /\ sessionOf'[d] # 0)
             => sessionOf'[c] # sessionOf'[d]
      /\ \A c \in Sock : sessionOf'[c] # 0 => socketIds'[sessionOf'[c]] = c
      /\ \A c \in Sock :
           (readyState[c] # "CLOSED" /\ readyState'[c] = "CLOSED")
             => \A d \in Sock \ {c} :
                  sessionOf[d] # 0
                    => /\ sessionOf'[d] = sessionOf[d]
                       /\ socketIds'[sessionOf[d]] = socketIds[sessionOf[d]]
                       /\ (sessionOf[d] \in registry') = (sessionOf[d] \in registry)
                       /\ readyState'[d] = readyState[d]
                       /\ removeLog'[d] = removeLog[d] ]_vars

C18_Witness ==
  \E c \in Sock, d \in Sock :
    /\ c # d
    /\ sessionOf[c] # 0 /\ readyState[c] = "CLOSED" /\ Len(removeLog[c]) = 1
    /\ sessionOf[d] # 0 /\ readyState[d] = "OPEN"
    /\ sessionOf[d] \in registry

\* Payload writes handed to socket c, over all send calls.
WritesOn(c) ==
  LET RECURSIVE Sum(_)
      Sum(n) == IF n = 0 THEN 0
                ELSE (IF sockOf[n] = c THEN Len(wrote[n]) ELSE 0) + Sum(n - 1)
  IN Sum(MaxSends)

\* Pings sent on socket c, and pongs received on it.
ProbesOn(c) == Cardinality({ s \in SendIds : sockOf[s] = c /\ probed[s] })

PongsOn(c) == ProbesOn(c) - pings[c]

\* C19 as stated: on every socket the payload writes are not more than the
\* pongs received.
C19_WritesBoundedByAcks ==
  \A c \in Sock : WritesOn(c) <= PongsOn(c)

\* C19 as amended: one pong runs the handler of every send waiting on the
\* socket, so the payload writes on a socket are bounded by the pings sent
\* on it, not by the pongs received; and nothing is written on a socket
\* before its first pong.
C19_WritesBoundedByProbes ==
  \A c \in Sock :
    /\ WritesOn(c) <= ProbesOn(c)
    /\ PongsOn(c) = 0 => WritesOn(c) = 0

C19_Witness ==
  \E c \in Sock : WritesOn(c) = 2 /\ PongsOn(c) = 1

\* C20: no send call has handed its payload to the socket more than once.
C20_PayloadWrittenAtMostOnce ==
  \A s \in SendIds : Len(wrote[s]) <= 1

\* A timed-out send written by a late pong, and a second pong after it.
C20_Witness ==
  \E s \in SendIds, r \in SendIds :
    /\ s # r /\ sockOf[s] = sockOf[r]
    /\ result[s] = "SendTimeout" /\ ack[s] = "late" /\ Len(wrote[s]) = 1
    /\ Len(wrote[r]) = 1
    /\ PongsOn(sockOf[s]) = 2
====
